---- MODULE Spec2Model ----
(***************************************************************************)
(* BondTransferRootWatcher (packages/hop-node/src/watchers): the poll      *)
(* entry point, the per-root evaluation checkTransfersCommitted, the vault *)
(* withdrawal critical section and the reorg-safety validation, as a state *)
(* machine.  One action per resumption of an async function: the remote    *)
(* call it awaited completes and the code runs up to its next await.       *)
(***************************************************************************)
EXTENDS Integers, Sequences, FiniteSets, TLC

(* ------------------------------ bounds -------------------------------- *)

NumRoots == 2
MaxCycles == 2
MaxActive == 2
MaxAmount == 2
MaxBondExtra == 1
MaxCredit == MaxAmount + MaxBondExtra
MaxVault == 1
MaxDelaySec == 1
MaxEnvChanges == 1

(* ------------------------- program constants -------------------------- *)

EthereumChainId == 1
MsPerSec == 1000
TwoWeeksMs == 1209600000

Roots == 1 .. NumRoots
Cycles == 1 .. MaxCycles
Tasks == Cycles \X Roots

ThisChainId == 2
OtherChainId == 3
DestinationChains == {EthereumChainId, OtherChainId}
SourceChains == {ThisChainId, OtherChainId}

Unset == -1
NoTask == <<0, 0>>

(* ------------------------- pure helper functions ---------------------- *)

toLowerCase(x) ==
  CASE x = "A" -> "a"
    [] x = "B" -> "b"
    [] OTHER -> x

MapLower(s) == [i \in 1 .. Len(s) |-> toLowerCase(s[i])]

LeafHash(x) == <<"leaf", toLowerCase(x)>>

NodeHash(l, r) == <<"node", l, r>>

RECURSIVE PairLevel(_)
PairLevel(level) ==
  IF Len(level) = 0 THEN <<>>
  ELSE IF Len(level) = 1 THEN <<level[1]>>
  ELSE <<NodeHash(level[1], level[2])>> \o PairLevel(SubSeq(level, 3, Len(level)))

RECURSIVE ReduceLevels(_)
ReduceLevels(level) ==
  IF Len(level) <= 1 THEN level ELSE ReduceLevels(PairLevel(level))

getHexRoot(ids) ==
  LET top == ReduceLevels([i \in 1 .. Len(ids) |-> LeafHash(ids[i])])
  IN  IF Len(top) = 0 THEN <<"empty">> ELSE top[1]

getTransferRootId(rootHash, totalAmount) == <<"id", rootHash, totalAmount>>

CountIn(x, s) == Cardinality({i \in 1 .. Len(s) : s[i] = x})

(* ----------------------- decisions taken by the code ------------------- *)

shouldBond(nowMs, committedAt, minDelaySec) ==
  LET minDelayMs == minDelaySec * MsPerSec
      committedAtMs == committedAt * MsPerSec
      delta == nowMs - committedAtMs - minDelayMs
  IN  delta > 0

coarseNotEnoughCredit(availableCredit, totalAmount) == availableCredit < totalAmount

(* a withdrawal decision that also fires on equality *)
shouldWithdrawOnEquality(availableCredit, vaultBalance, bondAmount) ==
  (availableCredit - vaultBalance) <= bondAmount

shouldWithdraw(availableCredit, vaultBalance, bondAmount) ==
  (availableCredit - vaultBalance) < bondAmount

pendingTransfers(known, ids) == IF known THEN ids ELSE <<>>

(* a hash verification that accepts every hash *)
hashVerifiedUnchecked(known, ids, transferRootHash) == TRUE

hashVerified(known, ids, transferRootHash) ==
  LET pending == pendingTransfers(known, ids)
  IN  Len(pending) > 0 => getHexRoot(pending) = transferRootHash

(* -------------------------------- state ------------------------------- *)

VARIABLES
  now,        \* Date.now(), milliseconds
  db,         \* this.db.transferRoots: one record per store slot
  hub,        \* L1 bridge state: minimum delay, bonded root ids, bond cost rule
  oracle,     \* availableLiquidityWatcher: credit and vault balance per chain
  conf,       \* watcher configuration: dryMode, vault autoWithdraw flag
  mutex,      \* this.mutex: holder and FIFO queue of waiting evaluations
  cyc,        \* one pollHandler invocation per cycle
  ev,         \* one checkTransfersCommitted evaluation per (cycle, root)
  env,        \* how many more changes the environment makes
  probe       \* the last direct call of the reorg-safety validation

vars == <<now, db, hub, oracle, conf, mutex, cyc, ev, env, probe>>

(* One TransferRoot record for every choice of its contents. *)
IdLists == {<<>>, <<"a">>, <<"A", "b">>, <<"c">>, <<"C">>}

BadHash == <<"bad">>

TransferRootRecord(known, ids, hashOk, amount, dest, source, committedAt) ==
  LET h == IF hashOk /\ known /\ Len(ids) > 0 THEN getHexRoot(ids) ELSE BadHash
  IN  [ transferRootId |-> getTransferRootId(h, amount),
        transferRootHash |-> h,
        totalAmount |-> amount,
        destinationChainId |-> dest,
        committedAt |-> committedAt,
        sourceChainId |-> source,
        transferIdsKnown |-> known,
        transferIds |-> ids,
        sentBondTxAt |-> Unset,
        isNotFound |-> FALSE ]

NoProbe == [ root |-> 0, destinationChainId |-> 0, result |-> "none", dispatches |-> 0 ]

IdleEvaluation ==
  [ pc |-> "idle",
    outcome |-> "none",
    transferRootId |-> <<"none">>,
    transferRootHash |-> <<"none">>,
    totalAmount |-> 0,
    destinationChainId |-> 0,
    committedAt |-> 0,
    sourceChainId |-> 0,
    transferIdsKnown |-> FALSE,
    transferIds |-> <<>>,
    bondAmount |-> 0,
    sentAt |-> Unset,
    lookedUpIds |-> <<>>,
    queued |-> FALSE,
    bondChecked |-> FALSE,
    hashChecked |-> FALSE,
    bondCostQueried |-> FALSE,
    creditQueried |-> FALSE,
    creditSeen |-> 0,
    vaultRead |-> FALSE,
    creditInSection |-> 0,
    vaultInSection |-> 0,
    withdrawCalls |-> 0,
    withdrawAmount |-> 0,
    storeWrites |-> 0,
    validated |-> "none",
    dispatches |-> 0,
    errorAlerts |-> 0,
    infoAlerts |-> 0,
    alertsLost |-> 0,
    withdrawResult |-> "none",
    txResult |-> "none",
    threw |-> FALSE ]

(* ------------------------ collaborators' queries ---------------------- *)

(* getUnbondedTransferRoots(getFilterRoute()): the records of this watcher's *)
(* route that carry neither marker.                                          *)
getUnbondedTransferRoots ==
  {r \in DOMAIN db : /\ db[r].sourceChainId = ThisChainId
                     /\ db[r].sentBondTxAt = Unset
                     /\ ~db[r].isNotFound}

(* getByTransferRootId: the slots of store S holding a record under that id. *)
getByTransferRootId(S, id) == {r \in DOMAIN S : S[r].transferRootId = id}

(* getTransferRootsFromTwoWeeks: the slots committed in the trailing window. *)
getTransferRootsFromTwoWeeks(S, nowMs) ==
  {r \in DOMAIN S : S[r].committedAt * MsPerSec >= nowMs - TwoWeeksMs}

getAvailableCreditForBond(chainId) == oracle.credit[chainId]

getVaultBalance(chainId) == oracle.vault[chainId]

getBondForTransferAmount(totalAmount) == totalAmount + hub.bondExtra

isTransferRootIdBonded(id) == id \in hub.bonded

autoWithdrawEnabled(chainId) == chainId \in conf.autoWithdraw

(* a watcher that does not persist the intent marker *)
updateSentBondTxAtDropped(id, at) == db

(* an isNotFound update that also resets the intent marker *)
updateIsNotFoundClearing(id) ==
  [r \in DOMAIN db |-> IF db[r].transferRootId = id
                       THEN [db[r] EXCEPT !.isNotFound = TRUE, !.sentBondTxAt = Unset]
                       ELSE db[r]]

(* db.transferRoots.update(id, fields) for the two fields this watcher writes *)
updateSentBondTxAt(id, at) ==
  [r \in DOMAIN db |-> IF db[r].transferRootId = id
                       THEN [db[r] EXCEPT !.sentBondTxAt = at] ELSE db[r]]

updateIsNotFound(id) ==
  [r \in DOMAIN db |-> IF db[r].transferRootId = id
                       THEN [db[r] EXCEPT !.isNotFound = TRUE] ELSE db[r]]

(* ----------------------- reorg-safety validation ---------------------- *)

(* lines 248-260: false on a missing or mismatching record *)
lookupValid(S, calculatedId, destinationChainId) ==
  LET found == getByTransferRootId(S, calculatedId)
  IN  IF found = {} THEN FALSE
      ELSE \A r \in found : S[r].destinationChainId = destinationChainId

(* line 263 dereferences transferIds of the record found: raises if undefined *)
lookupRaises(S, calculatedId) ==
  \E r \in getByTransferRootId(S, calculatedId) : ~S[r].transferIdsKnown

lookupTransferIds(S, calculatedId) ==
  LET r == CHOOSE x \in getByTransferRootId(S, calculatedId) : TRUE
  IN  MapLower(S[r].transferIds)

(* lines 265-271: the window's records of this bridge's chain; iterating the *)
(* transferIds of one that has none raises                                   *)
windowRoots(S, nowMs) ==
  {r \in getTransferRootsFromTwoWeeks(S, nowMs) : S[r].sourceChainId = ThisChainId}

windowRaises(S, nowMs) == \E r \in windowRoots(S, nowMs) : ~S[r].transferIdsKnown

RECURSIVE dbTransferIdsOf(_, _)
dbTransferIdsOf(S, slots) ==
  IF slots = {} THEN <<>>
  ELSE LET r == CHOOSE x \in slots : \A y \in slots : x <= y
       IN  MapLower(S[r].transferIds) \o dbTransferIdsOf(S, slots \ {r})

(* lines 273-276 *)
areTransferIdsUnique(transferIds, dbTransferIds) ==
  \A i \in 1 .. Len(transferIds) : CountIn(transferIds[i], dbTransferIds) = 1

(* lines 239-283 against one store content at one instant: *)
(* "pass" (true), "fail" (false) or "raised" (a TypeError) *)
isPreTransactionDataValid(S, nowMs, transferRootHash, destinationChainId, totalAmount) ==
  LET calculatedTransferRootId == getTransferRootId(transferRootHash, totalAmount)
  IN  IF ~lookupValid(S, calculatedTransferRootId, destinationChainId) THEN "fail"
      ELSE IF lookupRaises(S, calculatedTransferRootId) THEN "raised"
      ELSE IF windowRaises(S, nowMs) THEN "raised"
      ELSE IF areTransferIdsUnique(lookupTransferIds(S, calculatedTransferRootId),
                                   dbTransferIdsOf(S, windowRoots(S, nowMs)))
      THEN "pass"
      ELSE "fail"

(* ------------------------------- Init --------------------------------- *)

(* The store at start: NumRoots records of this watcher's route, committed *)
(* at second CommittedAt, each with its own transfer identifier and the     *)
(* matching hash.                                                           *)
CommittedAt == 1

OwnIds(r) == <<<<"a">>, <<"c">>, <<"b">>, <<"d">>>>[r]

InitStore ==
  [ r \in Roots |-> TransferRootRecord(TRUE, OwnIds(r), TRUE, MaxAmount,
                                       EthereumChainId, ThisChainId, CommittedAt) ]

(* The instants the clock visits: one second before the release time, the *)
(* release time, one millisecond after it, and two weeks later.            *)
ReleaseMs == (CommittedAt + MaxDelaySec) * MsPerSec

ClockValues ==
  { ReleaseMs - MsPerSec, ReleaseMs, ReleaseMs + 1, TwoWeeksMs + ReleaseMs + 1 }

OracleEntries ==
  { e \in [ credit : 1 .. MaxCredit, vault : 0 .. MaxVault ] : e.vault <= e.credit }

Init ==
  /\ now = ReleaseMs - MsPerSec
  /\ db = InitStore
  /\ hub = [ minDelaySec |-> MaxDelaySec, bonded |-> {}, bondExtra |-> MaxBondExtra ]
  /\ oracle = [ credit |-> [ch \in DestinationChains |-> MaxCredit],
                vault |-> [ch \in DestinationChains |-> 0] ]
  /\ conf \in [ dryMode : BOOLEAN, autoWithdraw : {{}, DestinationChains} ]
  /\ mutex = [ holder |-> NoTask, queue |-> <<>> ]
  /\ cyc = [ c \in Cycles |-> [ started |-> FALSE, overlapped |-> FALSE ] ]
  /\ ev = [ t \in Tasks |-> IdleEvaluation ]
  /\ env = MaxEnvChanges
  /\ probe = NoProbe

(* ------------------------- the poll entry point ----------------------- *)

Active(e) == e.pc \notin {"idle", "done"}

StartEvaluation(rec, skip) ==
  [ IdleEvaluation EXCEPT
      !.pc = IF skip THEN "done" ELSE "minDelay",
      !.outcome = IF skip THEN "coarseSkip" ELSE "none",
      !.transferRootId = rec.transferRootId,
      !.transferRootHash = rec.transferRootHash,
      !.totalAmount = rec.totalAmount,
      !.destinationChainId = rec.destinationChainId,
      !.committedAt = rec.committedAt,
      !.sourceChainId = rec.sourceChainId,
      !.transferIdsKnown = rec.transferIdsKnown,
      !.transferIds = rec.transferIds ]

(* a loop that stops at the first root it skips for lack of credit *)
loopVisitsUntilSkip(selected, availableCredit) ==
  {r \in selected :
     \A q \in selected :
       q < r => ~coarseNotEnoughCredit(availableCredit, db[q].totalAmount)}

(* lines 50-82: the for loop; `continue` leaves one root and goes on to the next *)
loopVisits(selected, availableCredit) == selected

(* pollHandler -> checkTransfersCommittedFromDb, up to `await Promise.all` *)
PollHandler(c) ==
  /\ ~cyc[c].started
  /\ c > 1 => cyc[c - 1].started
  /\ Cardinality({t \in Tasks : Active(ev[t])})
       + Cardinality(getUnbondedTransferRoots) <= MaxActive
  /\ LET selected == getUnbondedTransferRoots
         availableCredit == getAvailableCreditForBond(EthereumChainId)
     IN  ev' = [ t \in Tasks |->
                   IF t[1] = c /\ t[2] \in loopVisits(selected, availableCredit)
                   THEN StartEvaluation(db[t[2]],
                          coarseNotEnoughCredit(availableCredit, db[t[2]].totalAmount))
                   ELSE ev[t] ]
  /\ cyc' = [ cyc EXCEPT ![c] = [ started |-> TRUE,
                                   overlapped |-> \E t \in Tasks : Active(ev[t]) ] ]
  /\ UNCHANGED <<probe, now, db, hub, oracle, conf, mutex, env>>

(* What `await Promise.all(promises)` gives pollHandler's caller. *)
PollOutcome(c) ==
  IF ~cyc[c].started THEN "idle"
  ELSE IF \E r \in Roots : ev[<<c, r>>].threw THEN "rejected"
  ELSE IF \E r \in Roots : Active(ev[<<c, r>>]) THEN "pending"
  ELSE "resolved"

(* -------------------- checkTransfersCommitted, by await --------------- *)

Done(e, outcome) == [ e EXCEPT !.pc = "done", !.outcome = outcome ]

Thrown(e, outcome) == [ e EXCEPT !.pc = "done", !.outcome = outcome, !.threw = TRUE ]

(* Notifier.info / Notifier.error: fire-and-forget; a call that fails gives a *)
(* promise that rejects later, off the caller's path.                         *)
notifierSettles(delivered) == IF delivered THEN "resolved" ELSE "rejected"

(* a call site that awaits the notifier and so raises when its promise rejects *)
notifierCallAwaited(e, kind, delivered) ==
  LET called == IF kind = "error" THEN [ e EXCEPT !.errorAlerts = @ + 1 ]
                ELSE [ e EXCEPT !.infoAlerts = @ + 1 ]
  IN  IF notifierSettles(delivered) = "rejected"
      THEN [ Thrown(called, "notifierRaised") EXCEPT !.alertsLost = @ + 1 ]
      ELSE called

(* lines 150, 178, 225, 231: this.notifier.info(msg) / this.notifier.error(msg), *)
(* not awaited: the promise is dropped                                           *)
notifierCall(e, kind, delivered) ==
  LET called == IF kind = "error" THEN [ e EXCEPT !.errorAlerts = @ + 1 ]
                ELSE [ e EXCEPT !.infoAlerts = @ + 1 ]
  IN  IF notifierSettles(delivered) = "rejected"
      THEN [ called EXCEPT !.alertsLost = @ + 1 ]
      ELSE called

(* line 165: db.transferRoots.update is called with sentBondTxAt: Date.now() *)
issueIntent(e) == [ e EXCEPT !.pc = "persistIntent", !.sentAt = now ]

(* lines 99-111: getMinTransferRootBondDelaySeconds has answered *)
TimingGate(t) ==
  /\ ev[t].pc = "minDelay"
  /\ ev' = [ ev EXCEPT ![t] =
               IF shouldBond(now, @.committedAt, hub.minDelaySec)
               THEN [ @ EXCEPT !.pc = "isBonded" ]
               ELSE Done(@, "tooEarly") ]
  /\ UNCHANGED <<probe, now, db, hub, oracle, conf, mutex, cyc, env>>

(* lines 113-139: isTransferRootIdBonded has answered; then the hash check *)
RemoteBondCheck(t) ==
  /\ ev[t].pc = "isBonded"
  /\ ev' = [ ev EXCEPT ![t] =
               IF isTransferRootIdBonded(@.transferRootId)
               THEN [ @ EXCEPT !.pc = "markNotFound", !.bondChecked = TRUE ]
               ELSE IF hashVerified(@.transferIdsKnown, @.transferIds, @.transferRootHash)
               THEN [ @ EXCEPT !.pc = "bondAmount", !.bondChecked = TRUE,
                                !.hashChecked = TRUE, !.bondCostQueried = TRUE ]
               ELSE [ Done(@, "hashMismatch") EXCEPT !.bondChecked = TRUE,
                                                      !.hashChecked = TRUE ] ]
  /\ UNCHANGED <<probe, now, db, hub, oracle, conf, mutex, cyc, env>>

(* an already-bonded branch that lacks its return and goes on to the bond cost *)
MarkNotFoundNoReturn(t) ==
  /\ ev[t].pc = "markNotFound"
  /\ db' = updateIsNotFound(ev[t].transferRootId)
  /\ ev' = [ ev EXCEPT ![t] = [ @ EXCEPT !.pc = "bondAmount", !.storeWrites = @ + 1,
                                          !.hashChecked = TRUE, !.bondCostQueried = TRUE ] ]
  /\ UNCHANGED <<probe, now, hub, oracle, conf, mutex, cyc, env>>

(* lines 116-117: the isNotFound update has been written *)
MarkNotFound(t) ==
  /\ ev[t].pc = "markNotFound"
  /\ db' = updateIsNotFound(ev[t].transferRootId)
  /\ ev' = [ ev EXCEPT ![t] = [ Done(@, "alreadyBonded") EXCEPT !.storeWrites = @ + 1 ] ]
  /\ UNCHANGED <<probe, now, hub, oracle, conf, mutex, cyc, env>>

(* a critical section that issues the sentBondTxAt update before it withdraws *)
enterSectionIntentFirst(e, delivered) ==
  LET availableCredit == getAvailableCreditForBond(e.destinationChainId)
      vaultBalance == getVaultBalance(e.destinationChainId)
      read == [ e EXCEPT !.vaultRead = TRUE,
                         !.creditInSection = availableCredit,
                         !.vaultInSection = vaultBalance ]
  IN  IF shouldWithdraw(availableCredit, vaultBalance, e.bondAmount)
      THEN [ notifierCall(read, "info", delivered) EXCEPT
               !.pc = "withdraw",
               !.withdrawCalls = @ + 1,
               !.withdrawAmount = vaultBalance,
               !.sentAt = now ]
      ELSE issueIntent(read)

(* lines 218-228: the body of the critical section up to its await *)
enterSection(e, delivered) ==
  LET availableCredit == getAvailableCreditForBond(e.destinationChainId)
      vaultBalance == getVaultBalance(e.destinationChainId)
      read == [ e EXCEPT !.vaultRead = TRUE,
                         !.creditInSection = availableCredit,
                         !.vaultInSection = vaultBalance ]
  IN  IF shouldWithdraw(availableCredit, vaultBalance, e.bondAmount)
      THEN LET notified == notifierCall(read, "info", delivered)
           IN  IF notified.threw THEN notified
               ELSE [ notified EXCEPT !.pc = "withdraw",
                                      !.withdrawCalls = @ + 1,
                                      !.withdrawAmount = vaultBalance ]
      ELSE issueIntent(read)

(* mutex.runExclusive: the lock goes to the waiters in FIFO order; one that *)
(* does not withdraw releases it at once and the next waiter runs.          *)
RECURSIVE Grant(_, _, _)
Grant(E, queue, delivered) ==
  IF queue = <<>>
  THEN [ ev |-> E, mutex |-> [ holder |-> NoTask, queue |-> <<>> ] ]
  ELSE LET t == Head(queue)
           e == enterSection(E[t], delivered)
       IN  IF e.pc = "withdraw"
           THEN [ ev |-> [ E EXCEPT ![t] = e ],
                  mutex |-> [ holder |-> t, queue |-> Tail(queue) ] ]
           ELSE Grant([ E EXCEPT ![t] = e ], Tail(queue), delivered)

(* a lock that every caller finds free *)
mutexAlwaysFree == TRUE

mutexFree == mutex.holder = NoTask

(* a caller that does not wait for the vault step before persisting the intent *)
withdrawFromVaultIfNeededNotAwaited(t, e, delivered) ==
  [ ev |-> [ ev EXCEPT ![t] = issueIntent(e) ], mutex |-> mutex ]

(* lines 213-217 *)
withdrawFromVaultIfNeeded(t, e, delivered) ==
  IF ~autoWithdrawEnabled(e.destinationChainId)
  THEN [ ev |-> [ ev EXCEPT ![t] = issueIntent(e) ], mutex |-> mutex ]
  ELSE IF mutexFree
  THEN Grant([ ev EXCEPT ![t] = e ], <<t>>, delivered)
  ELSE [ ev |-> [ ev EXCEPT ![t] = [ e EXCEPT !.pc = "mutexWait", !.queued = TRUE ] ],
         mutex |-> [ mutex EXCEPT !.queue = Append(@, t) ] ]

(* a precise gate that also refuses credit equal to the bond amount *)
notEnoughCreditOffByOne(availableCredit, bondAmount) == availableCredit <= bondAmount

(* a precise gate that sets aside the bonds of the evaluations in flight *)
notEnoughCreditReserving(availableCredit, bondAmount) ==
  LET holds(u) == Active(ev[u]) /\ ev[u].creditQueried
      other == IF \E u \in Tasks : holds(u)
               THEN ev[CHOOSE u \in Tasks : holds(u)].bondAmount ELSE 0
  IN  availableCredit - other < bondAmount

(* lines 143-144 *)
notEnoughCredit(availableCredit, bondAmount) == availableCredit < bondAmount

(* a watcher that ignores its simulate-only flag *)
dryRunIgnored(c) == FALSE

(* lines 154-157: this.dryMode *)
dryRun(c) == c.dryMode

(* lines 141-159: getBondForTransferAmount has answered *)
PreciseCreditCheck(t, delivered) ==
  /\ ev[t].pc = "bondAmount"
  /\ LET bondAmount == getBondForTransferAmount(ev[t].totalAmount)
         availableCredit == getAvailableCreditForBond(EthereumChainId)
         e == [ ev[t] EXCEPT !.bondAmount = bondAmount,
                             !.creditQueried = TRUE,
                             !.creditSeen = availableCredit ]
     IN  IF notEnoughCredit(availableCredit, bondAmount)
         THEN /\ ev' = [ ev EXCEPT ![t] =
                           LET notified == notifierCall(e, "error", delivered)
                           IN  IF notified.threw THEN notified
                               ELSE Done(notified, "notEnoughCredit") ]
              /\ mutex' = mutex
         ELSE IF dryRun(conf)
         THEN /\ ev' = [ ev EXCEPT ![t] = Done(e, "dry") ]
              /\ mutex' = mutex
         ELSE LET next == withdrawFromVaultIfNeeded(t, e, delivered)
              IN  /\ ev' = next.ev
                  /\ mutex' = next.mutex
  /\ UNCHANGED <<probe, now, db, hub, oracle, conf, cyc, env>>

(* a critical section that keeps the lock when the withdrawal fails *)
WithdrawSettledNoRelease(t, ok, delivered) ==
  /\ ev[t].pc = "withdraw"
  /\ mutex.holder = t
  /\ LET e == IF ok THEN issueIntent([ ev[t] EXCEPT !.withdrawResult = "ok" ])
              ELSE Thrown(notifierCall([ ev[t] EXCEPT !.withdrawResult = "failed" ],
                                       "error", delivered), "withdrawFailed")
         next == IF ok THEN Grant([ ev EXCEPT ![t] = e ], mutex.queue, delivered)
                 ELSE [ ev |-> [ ev EXCEPT ![t] = e ], mutex |-> mutex ]
     IN  /\ ev' = next.ev
         /\ mutex' = next.mutex
  /\ UNCHANGED <<probe, now, db, hub, oracle, conf, cyc, env>>

(* lines 228-236: withdrawFromVaultAndStake has settled; the lock is released *)
WithdrawSettled(t, ok, delivered) ==
  /\ ev[t].pc = "withdraw"
  /\ mutex.holder = t
  /\ LET e == IF ok THEN issueIntent([ ev[t] EXCEPT !.withdrawResult = "ok" ])
              ELSE Thrown(notifierCall([ ev[t] EXCEPT !.withdrawResult = "failed" ],
                                       "error", delivered), "withdrawFailed")
         next == Grant([ ev EXCEPT ![t] = e ], mutex.queue, delivered)
     IN  /\ ev' = next.ev
         /\ mutex' = next.mutex
  /\ UNCHANGED <<probe, now, db, hub, oracle, conf, cyc, env>>

(* lines 165-170 and 190, 248-250: the sentBondTxAt update has been written *)
PersistIntent(t) ==
  /\ ev[t].pc = "persistIntent"
  /\ db' = updateSentBondTxAt(ev[t].transferRootId, ev[t].sentAt)
  /\ ev' = [ ev EXCEPT ![t] = [ @ EXCEPT !.pc = "lookup", !.storeWrites = @ + 1 ] ]
  /\ UNCHANGED <<probe, now, hub, oracle, conf, mutex, cyc, env>>

(* a sendBondTransferRoot that sends whatever the validation returned *)
sendBondTransferRootUnchecked(e, result) ==
  [ e EXCEPT !.pc = "tx", !.validated = result, !.dispatches = @ + 1 ]

(* lines 190-204: what sendBondTransferRoot does with the validation's result *)
sendBondTransferRoot(e, result) ==
  IF result = "pass"
  THEN [ e EXCEPT !.pc = "tx", !.validated = "pass", !.dispatches = @ + 1 ]
  ELSE IF result = "fail"
  THEN [ Thrown(e, "reorg") EXCEPT !.validated = "fail" ]
  ELSE [ Thrown(e, "validationRaised") EXCEPT !.validated = "raised" ]

(* lines 250-265: getByTransferRootId has answered *)
ValidateLookup(t) ==
  /\ ev[t].pc = "lookup"
  /\ LET id == getTransferRootId(ev[t].transferRootHash, ev[t].totalAmount)
     IN  ev' = [ ev EXCEPT ![t] =
                   IF ~lookupValid(db, id, @.destinationChainId)
                   THEN sendBondTransferRoot(@, "fail")
                   ELSE IF lookupRaises(db, id)
                   THEN sendBondTransferRoot(@, "raised")
                   ELSE [ @ EXCEPT !.pc = "window",
                                   !.lookedUpIds = lookupTransferIds(db, id) ] ]
  /\ UNCHANGED <<probe, now, db, hub, oracle, conf, mutex, cyc, env>>

(* lines 265-283 and 195-204: getTransferRootsFromTwoWeeks has answered *)
ValidateWindow(t) ==
  /\ ev[t].pc = "window"
  /\ ev' = [ ev EXCEPT ![t] =
               IF windowRaises(db, now)
               THEN sendBondTransferRoot(@, "raised")
               ELSE IF areTransferIdsUnique(@.lookedUpIds,
                                            dbTransferIdsOf(db, windowRoots(db, now)))
               THEN sendBondTransferRoot(@, "pass")
               ELSE sendBondTransferRoot(@, "fail") ]
  /\ UNCHANGED <<probe, now, db, hub, oracle, conf, mutex, cyc, env>>

(* lines 170-182: bondTransferRoot has settled *)
TxSettled(t, ok, delivered) ==
  /\ ev[t].pc = "tx"
  /\ ev' = [ ev EXCEPT ![t] =
               IF ok
               THEN LET notified == notifierCall([ @ EXCEPT !.txResult = "ok" ],
                                                 "info", delivered)
                    IN  IF notified.threw THEN notified ELSE Done(notified, "sent")
               ELSE Thrown([ @ EXCEPT !.txResult = "failed" ], "txFailed") ]
  /\ UNCHANGED <<probe, now, db, hub, oracle, conf, mutex, cyc, env>>

(* ---------------------------- environment ----------------------------- *)

Tick ==
  /\ \E later \in ClockValues : later > now /\ now' = later
  /\ UNCHANGED <<probe, db, hub, oracle, conf, mutex, cyc, ev, env>>

(* some bonder's bondTransferRoot is mined on the hub chain *)
HubBond(r) ==
  /\ env > 0
  /\ db[r].transferRootId \notin hub.bonded
  /\ hub' = [ hub EXCEPT !.bonded = @ \cup {db[r].transferRootId} ]
  /\ env' = env - 1
  /\ UNCHANGED <<probe, now, db, oracle, conf, mutex, cyc, ev>>

(* the liquidity watcher refreshes its cached credit and vault balance of a chain *)
OracleUpdate(ch) ==
  /\ env > 0
  /\ \E e \in OracleEntries :
       /\ <<e.credit, e.vault>> /= <<oracle.credit[ch], oracle.vault[ch]>>
       /\ oracle' = [ credit |-> [ oracle.credit EXCEPT ![ch] = e.credit ],
                      vault |-> [ oracle.vault EXCEPT ![ch] = e.vault ] ]
  /\ env' = env - 1
  /\ UNCHANGED <<probe, now, db, hub, conf, mutex, cyc, ev>>

(* the sync collaborator rewrites a record after a reorg: its route, or *)
(* the transfer identifiers it knows of the root                        *)
StoreRewrite(r) ==
  /\ env > 0
  /\ \/ \E dest \in DestinationChains :
          /\ dest /= db[r].destinationChainId
          /\ db' = [ db EXCEPT ![r].destinationChainId = dest ]
     \/ \E ids \in IdLists :
          /\ ids /= db[r].transferIds
          /\ db' = [ db EXCEPT ![r].transferIds = ids, ![r].transferIdsKnown = TRUE ]
     \/ /\ db[r].transferIdsKnown
        /\ db' = [ db EXCEPT ![r].transferIds = <<>>, ![r].transferIdsKnown = FALSE ]
  /\ env' = env - 1
  /\ UNCHANGED <<probe, now, hub, oracle, conf, mutex, cyc, ev>>

Next ==
  \/ \E c \in Cycles : PollHandler(c)
  \/ \E t \in Tasks : TimingGate(t)
  \/ \E t \in Tasks : RemoteBondCheck(t)
  \/ \E t \in Tasks : MarkNotFound(t)
  \/ \E t \in Tasks, delivered \in BOOLEAN : PreciseCreditCheck(t, delivered)
  \/ \E t \in Tasks, ok, delivered \in BOOLEAN : WithdrawSettled(t, ok, delivered)
  \/ \E t \in Tasks : PersistIntent(t)
  \/ \E t \in Tasks : ValidateLookup(t)
  \/ \E t \in Tasks : ValidateWindow(t)
  \/ \E t \in Tasks, ok, delivered \in BOOLEAN : TxSettled(t, ok, delivered)
  \/ Tick
  \/ \E r \in Roots : HubBond(r)
  \/ \E ch \in DestinationChains : OracleUpdate(ch)
  \/ \E r \in Roots : StoreRewrite(r)

Spec == Init /\ [][Next]_vars

(* ------------- the reorg-safety validation on its own ----------------- *)

NumProbeRecords == 3

ProbeSlots == 1 .. NumProbeRecords

(* Stores of NumProbeRecords records: each with known or unknown transfer *)
(* identifiers, on either route, and an amount of its own.                *)
ProbeStores ==
  { [ r \in ProbeSlots |->
        TransferRootRecord(content[r][1][1], content[r][1][2], TRUE, r,
                           EthereumChainId, content[r][2], CommittedAt) ] :
      content \in [ ProbeSlots ->
                      ({<<TRUE, ids>> : ids \in IdLists} \cup {<<FALSE, <<>>>>})
                        \X SourceChains ] }

InitValidate ==
  /\ now \in { ReleaseMs, TwoWeeksMs + ReleaseMs + 1 }
  /\ db \in ProbeStores
  /\ hub = [ minDelaySec |-> MaxDelaySec, bonded |-> {}, bondExtra |-> MaxBondExtra ]
  /\ oracle = [ credit |-> [ch \in DestinationChains |-> MaxCredit],
                vault |-> [ch \in DestinationChains |-> 0] ]
  /\ conf = [ dryMode |-> FALSE, autoWithdraw |-> {} ]
  /\ mutex = [ holder |-> NoTask, queue |-> <<>> ]
  /\ cyc = [ c \in Cycles |-> [ started |-> FALSE, overlapped |-> FALSE ] ]
  /\ ev = [ t \in Tasks |-> IdleEvaluation ]
  /\ env = 0
  /\ probe = NoProbe

(* sendBondTransferRoot(hash, destinationChainId, amount) of a stored record, *)
(* its two store reads taken at the same instant                              *)
ValidateCall(r, dest) ==
  /\ LET result == isPreTransactionDataValid(db, now, db[r].transferRootHash,
                                             dest, db[r].totalAmount)
         e == sendBondTransferRoot(StartEvaluation(db[r], FALSE), result)
     IN  probe' = [ root |-> r, destinationChainId |-> dest,
                    result |-> e.validated, dispatches |-> e.dispatches ]
  /\ UNCHANGED <<now, db, hub, oracle, conf, mutex, cyc, ev, env>>

NextValidate == \E r \in ProbeSlots, dest \in DestinationChains : ValidateCall(r, dest)

SpecValidate == InitValidate /\ [][NextValidate]_vars

(* ------------------------------ properties ---------------------------- *)

Stepped(t, pc) == ev[t].pc = pc /\ ev'[t].pc /= pc

Dispatched(t) == ev[t].dispatches > 0

(* C1: with committedAt = T and minimum delay D, an evaluation whose clock  *)
(* reads T + D - 1 seconds stops as too early and touches nothing else; one *)
(* whose clock reads exactly T + D seconds passes the timing gate and goes  *)
(* on to the remote already-bonded check.                                   *)
C1_TimingBoundary ==
  [][\A t \in Tasks :
       Stepped(t, "minDelay") =>
         /\ now = (ev[t].committedAt + hub.minDelaySec - 1) * MsPerSec =>
              /\ ev'[t] = Done(ev[t], "tooEarly")
              /\ UNCHANGED <<db, hub, oracle, mutex>>
         /\ now = (ev[t].committedAt + hub.minDelaySec) * MsPerSec =>
              ev'[t].pc = "isBonded"]_vars

(* C2 as stated: over any sequence of poll cycles, overlapping ones        *)
(* included, no root has two bondTransferRoot dispatches.                  *)
C2_DispatchedOnceAnyCycles ==
  \A r \in Roots :
    /\ \A c \in Cycles : ev[<<c, r>>].dispatches <= 1
    /\ Cardinality({c \in Cycles : Dispatched(<<c, r>>)}) <= 1

(* C2 amended: a root has two dispatches only if a poll cycle after the    *)
(* first dispatching one started while an earlier evaluation was in flight; *)
(* with cycles that wait for the earlier evaluations, at most one dispatch. *)
C2_DispatchedOnceSequentialCycles ==
  \A r \in Roots :
    /\ \A c \in Cycles : ev[<<c, r>>].dispatches <= 1
    /\ \A c1, c2 \in Cycles :
         (c1 < c2 /\ Dispatched(<<c1, r>>) /\ Dispatched(<<c2, r>>)) =>
           \E c \in (c1 + 1) .. c2 : cyc[c].overlapped

C2_Witness ==
  \E r \in Roots :
    /\ Dispatched(<<1, r>>)
    /\ cyc[2].started
    /\ ~cyc[2].overlapped
    /\ ev[<<2, r>>].pc = "idle"
    /\ \E r2 \in Roots : ev[<<2, r2>>].pc /= "idle"

(* C3: a dispatch happens only in the step in which the reorg-safety       *)
(* validation passes, in an evaluation whose intent marker is already in   *)
(* the store; a validation that fails makes sendBondTransferRoot raise and *)
(* leaves the evaluation without a dispatch.                               *)
C3_DispatchOnlyAfterValidation ==
  [][\A t \in Tasks :
       /\ ev'[t].dispatches > ev[t].dispatches =>
            /\ ev[t].pc = "window"
            /\ ev[t].validated = "none"
            /\ ev'[t].validated = "pass"
            /\ ev[t].storeWrites = 1
            /\ ev[t].sentAt /= Unset
            /\ \A r \in getByTransferRootId(db, ev[t].transferRootId) :
                 db[r].sentBondTxAt /= Unset
       /\ ev'[t].validated = "fail" =>
            /\ ev'[t].threw
            /\ ev'[t].pc = "done"
            /\ ev'[t].dispatches = 0]_vars

C3_Witness ==
  \E t1, t2 \in Tasks :
    /\ ev[t1].validated = "fail" /\ ev[t1].threw
    /\ ev[t2].validated = "pass" /\ ev[t2].dispatches = 1

SharesTransferId(S, r1, r2) ==
  /\ S[r1].transferIdsKnown
  /\ S[r2].transferIdsKnown
  /\ \E i \in 1 .. Len(S[r1].transferIds), j \in 1 .. Len(S[r2].transferIds) :
       toLowerCase(S[r1].transferIds[i]) = toLowerCase(S[r2].transferIds[j])

Conflicting(S, nowMs, r1, r2) ==
  /\ r1 /= r2
  /\ S[r1].sourceChainId = S[r2].sourceChainId
  /\ {r1, r2} \subseteq getTransferRootsFromTwoWeeks(S, nowMs)
  /\ SharesTransferId(S, r1, r2)

(* C4: when the store holds two roots of one source chain, both in the     *)
(* two-week window, that share a transfer identifier up to case, the       *)
(* validation of either returns fail and its transaction is not sent.      *)
C4_SharedIdFailsBoth ==
  (/\ probe.root /= 0
   /\ \E r2 \in DOMAIN db : Conflicting(db, now, probe.root, r2))
    => (probe.result = "fail" /\ probe.dispatches = 0)

(* C5: at the precise credit check, credit equal to the bond amount (or    *)
(* above it) passes the gate; credit below it ends the evaluation there,   *)
(* with no withdrawal, no sentBondTxAt write and no dispatch.              *)
C5_PreciseCreditGate ==
  [][\A t \in Tasks :
       Stepped(t, "bondAmount") =>
         LET requiredAmount == getBondForTransferAmount(ev[t].totalAmount)
             availableCredit == getAvailableCreditForBond(EthereumChainId)
         IN  /\ availableCredit >= requiredAmount =>
                  /\ ev'[t].outcome /= "notEnoughCredit"
                  /\ ~conf.dryMode =>
                       ev'[t].pc \in {"mutexWait", "withdraw", "persistIntent"}
             /\ availableCredit < requiredAmount =>
                  /\ ev'[t].pc = "done"
                  /\ ev'[t].outcome = "notEnoughCredit"
                  /\ ~ev'[t].vaultRead
                  /\ ev'[t].withdrawCalls = 0
                  /\ ev'[t].sentAt = Unset
                  /\ ev'[t].storeWrites = 0
                  /\ ev'[t].dispatches = 0
                  /\ UNCHANGED <<db, mutex>>]_vars

C5_Witness ==
  \E t1, t2 \in Tasks :
    /\ ev[t1].outcome = "notEnoughCredit"
    /\ ev[t1].creditSeen = ev[t1].bondAmount - 1
    /\ ev[t2].creditQueried
    /\ ev[t2].creditSeen = ev[t2].bondAmount
    /\ ev[t2].sentAt /= Unset

(* C6: every root left unbonded for lack of credit, by the coarse          *)
(* pre-filter or by the precise check, gets a notifier.error alert, no     *)
(* transaction and no marker.                                              *)
C6_InsufficientCreditAlerts ==
  \A t \in Tasks :
    ev[t].outcome \in {"coarseSkip", "notEnoughCredit"} =>
      /\ ev[t].errorAlerts >= 1
      /\ ev[t].dispatches = 0
      /\ ev[t].storeWrites = 0

(* C7: the withdraw-and-restake operation is invoked exactly when the      *)
(* auto-withdraw flag is on and, with the values the critical section      *)
(* reads, availableCredit - vaultBalance < bondAmount; the amount is the   *)
(* vault balance read; with the flag off nothing is read or locked.        *)
C7_WithdrawIffNeeded ==
  [][\A t \in Tasks :
       /\ (~ev[t].vaultRead /\ ev'[t].vaultRead) =>
            LET chain == ev[t].destinationChainId
                availableCredit == getAvailableCreditForBond(chain)
                vaultBalance == getVaultBalance(chain)
                bondAmount == getBondForTransferAmount(ev[t].totalAmount)
            IN  /\ autoWithdrawEnabled(chain)
                /\ ev[t].pc \in {"bondAmount", "mutexWait"}
                /\ ev'[t].withdrawCalls = 1 <=> (availableCredit - vaultBalance) < bondAmount
                /\ ev'[t].withdrawCalls = 0 <=> (availableCredit - vaultBalance) >= bondAmount
                /\ ev'[t].withdrawCalls = 1 =>
                     ev'[t].withdrawAmount = vaultBalance /\ ev'[t].pc = "withdraw"
       /\ ev'[t].withdrawCalls /= ev[t].withdrawCalls =>
            (~ev[t].vaultRead /\ ev'[t].vaultRead)
       /\ (/\ Stepped(t, "bondAmount")
           /\ ev'[t].pc /= "done"
           /\ ~autoWithdrawEnabled(ev[t].destinationChainId)) =>
            /\ ~ev'[t].vaultRead
            /\ ev'[t].withdrawCalls = 0
            /\ ev'[t].pc = "persistIntent"
            /\ mutex' = mutex]_vars

C7_Witness ==
  \E t1, t2 \in Tasks :
    /\ ev[t1].vaultRead
    /\ ev[t1].creditInSection - ev[t1].vaultInSection = ev[t1].bondAmount
    /\ ev[t1].withdrawCalls = 0
    /\ ev[t2].vaultRead
    /\ ev[t2].creditInSection - ev[t2].vaultInSection = ev[t2].bondAmount - 1
    /\ ev[t2].withdrawCalls = 1
    /\ ev[t2].withdrawAmount = ev[t2].vaultInSection
    /\ ev[t2].withdrawAmount > 0

(* C8: a failed withdraw-and-restake is alerted with notifier.error and    *)
(* rethrown, the attempt ends with no sentBondTxAt write and no dispatch,  *)
(* and on every exit of the critical section the lock leaves the           *)
(* evaluation: it is free, or held by the waiter that was first in line.   *)
C8_WithdrawFailureReleasesLock ==
  [][\A t \in Tasks :
       Stepped(t, "withdraw") =>
         /\ mutex.holder = t
         /\ mutex'.holder /= t
         /\ mutex.queue = <<>> => mutex'.holder = NoTask
         /\ mutex.queue /= <<>> =>
              /\ ev'[Head(mutex.queue)].vaultRead
              /\ ev'[Head(mutex.queue)].pc /= "mutexWait"
         /\ mutex'.holder /= NoTask => ev'[mutex'.holder].pc = "withdraw"
         /\ \A w \in Tasks : ev'[w].pc = "mutexWait" => mutex'.holder /= NoTask
         /\ ev'[t].threw =>
              /\ ev'[t].pc = "done"
              /\ ev'[t].outcome = "withdrawFailed"
              /\ ev'[t].errorAlerts = ev[t].errorAlerts + 1
              /\ ev'[t].sentAt = Unset
              /\ ev'[t].storeWrites = 0
              /\ ev'[t].dispatches = 0
              /\ PollOutcome(t[1])' = "rejected"
              /\ db' = db]_vars

C8_Witness ==
  \E t1, t2 \in Tasks :
    /\ ev[t1].outcome = "withdrawFailed"
    /\ ev[t2].queued
    /\ ev[t2].vaultRead
    /\ ev[t2].dispatches = 1

(* C9: an evaluation told by the hub that its root is bonded writes        *)
(* isNotFound = true and ends, having done no hash verification, credit    *)
(* query, vault operation, sentBondTxAt write or dispatch; and no poll     *)
(* cycle starts an evaluation of a root that is marked isNotFound.         *)
C9_AlreadyBondedIsTerminal ==
  [][\A t \in Tasks :
       /\ (Stepped(t, "isBonded") /\ isTransferRootIdBonded(ev[t].transferRootId)) =>
            ev'[t].pc = "markNotFound" /\ ~ev'[t].hashChecked
       /\ Stepped(t, "markNotFound") =>
            /\ \A r \in getByTransferRootId(db, ev[t].transferRootId) : db'[r].isNotFound
            /\ ev'[t].pc = "done"
            /\ ev'[t].outcome = "alreadyBonded"
            /\ ~ev'[t].hashChecked
            /\ ~ev'[t].bondCostQueried
            /\ ~ev'[t].creditQueried
            /\ ~ev'[t].vaultRead
            /\ ev'[t].withdrawCalls = 0
            /\ ev'[t].sentAt = Unset
            /\ ev'[t].dispatches = 0
       /\ (ev[t].pc = "idle" /\ ev'[t].pc /= "idle") => ~db[t[2]].isNotFound
       /\ db[t[2]].isNotFound => db'[t[2]].isNotFound]_vars

C9_Witness ==
  \E r \in Roots :
    /\ ev[<<1, r>>].outcome = "alreadyBonded"
    /\ db[r].isNotFound
    /\ cyc[2].started
    /\ ev[<<2, r>>].pc = "idle"
    /\ \E r2 \in Roots : ev[<<2, r2>>].pc /= "idle"

(* C10: an evaluation that reaches the hash verification with known,       *)
(* non-empty transfer identifiers whose merkle root differs from the       *)
(* stored hash ends there: no bond-cost or credit query, no vault          *)
(* operation, no store write, no dispatch, and the record is as it was.    *)
C10_HashMismatchAborts ==
  [][\A t \in Tasks :
       (/\ Stepped(t, "isBonded")
        /\ ~isTransferRootIdBonded(ev[t].transferRootId)
        /\ ev[t].transferIdsKnown
        /\ Len(ev[t].transferIds) > 0
        /\ getHexRoot(ev[t].transferIds) /= ev[t].transferRootHash) =>
         /\ ev'[t].pc = "done"
         /\ ev'[t].outcome = "hashMismatch"
         /\ ~ev'[t].threw
         /\ ~ev'[t].bondCostQueried
         /\ ~ev'[t].creditQueried
         /\ ~ev'[t].vaultRead
         /\ ev'[t].withdrawCalls = 0
         /\ ev'[t].storeWrites = 0
         /\ ev'[t].dispatches = 0
         /\ UNCHANGED <<db, mutex>>
         /\ (t[2] \in getUnbondedTransferRoots <=> t[2] \in getUnbondedTransferRoots')]_vars

C10_Witness ==
  \E r \in Roots :
    /\ ev[<<1, r>>].outcome = "hashMismatch"
    /\ ev[<<2, r>>].outcome = "hashMismatch"

(* C11: in simulate-only mode an evaluation that passes the precise credit *)
(* check ends there, leaving the store and the lock as they were; and in   *)
(* that mode no evaluation reads the vault, invokes a withdrawal, issues  *)
(* or writes sentBondTxAt, or dispatches a transaction.                    *)
C11_DryModeNoSideEffects ==
  [][conf.dryMode =>
       /\ \A t \in Tasks :
            /\ (/\ Stepped(t, "bondAmount")
                /\ getAvailableCreditForBond(EthereumChainId)
                     >= getBondForTransferAmount(ev[t].totalAmount)) =>
                 /\ ev'[t].pc = "done"
                 /\ ev'[t].outcome = "dry"
                 /\ ~ev'[t].threw
                 /\ UNCHANGED <<db, mutex>>
            /\ ~ev'[t].vaultRead
            /\ ev'[t].withdrawCalls = 0
            /\ ev'[t].sentAt = Unset
            /\ ev'[t].validated = "none"
            /\ ev'[t].dispatches = 0
       /\ \A r \in Roots : db'[r].sentBondTxAt = Unset
       /\ mutex' = mutex]_vars

C11_Witness ==
  /\ conf.dryMode
  /\ conf.autoWithdraw /= {}
  /\ \E r \in Roots :
       /\ ev[<<1, r>>].outcome = "dry"
       /\ ev[<<2, r>>].outcome = "dry"

EarlyAborts == {"coarseSkip", "tooEarly", "hashMismatch", "notEnoughCredit", "withdrawFailed"}

WroteNothing(t) == ev[t].storeWrites = 0 /\ ev[t].sentAt = Unset

StillEligible(t) ==
  (\A c \in Cycles : ev[<<c, t[2]>>].storeWrites = 0) => t[2] \in getUnbondedTransferRoots

(* C12 as stated: an evaluation that ends aborted for any reason other    *)
(* than already bonded, a failed reorg-safety validation included, has    *)
(* written neither marker and leaves its root eligible.                    *)
C12_EveryAbortLeavesUnbonded ==
  \A t \in Tasks :
    ev[t].outcome \in EarlyAborts \cup {"reorg"} => WroteNothing(t) /\ StillEligible(t)

(* C12 amended: an evaluation that ends as too early, hash mismatch,      *)
(* insufficient credit or failed vault withdrawal has written neither     *)
(* marker, and its root is still selected by the unbonded-roots query     *)
(* unless another evaluation of the root wrote one; an evaluation whose   *)
(* reorg-safety validation fails has already written sentBondTxAt.        *)
C12_EarlyAbortLeavesUnbonded ==
  \A t \in Tasks :
    /\ ev[t].outcome \in EarlyAborts => WroteNothing(t) /\ StillEligible(t)
    /\ ev[t].outcome = "reorg" => ev[t].storeWrites = 1 /\ ev[t].sentAt /= Unset

C12_Witness ==
  \E r \in Roots :
    /\ ev[<<1, r>>].outcome = "withdrawFailed"
    /\ ev[<<2, r>>].pc /= "idle"
    /\ \E t \in Tasks : ev[t].outcome = "reorg"

CoreStep == env' = env

FrameFields ==
  {"transferRootId", "transferRootHash", "totalAmount", "destinationChainId",
   "committedAt", "sourceChainId", "transferIdsKnown", "transferIds"}

(* C13: a step of the watcher changes nothing of a record but sentBondTxAt *)
(* and isNotFound; it writes no other field and no bonded state, sets      *)
(* isNotFound only to true, and never returns a set sentBondTxAt to unset. *)
C13_OnlyTwoMarkersWritten ==
  [][CoreStep =>
       \A r \in Roots :
         /\ DOMAIN db'[r] = DOMAIN db[r]
         /\ \A f \in FrameFields : db'[r][f] = db[r][f]
         /\ db[r].isNotFound => db'[r].isNotFound
         /\ db[r].sentBondTxAt /= Unset => db'[r].sentBondTxAt /= Unset
         /\ db'[r] /= db[r] =>
              \E t \in Tasks :
                /\ ev[t].transferRootId = db[r].transferRootId
                /\ \/ Stepped(t, "markNotFound")
                   \/ Stepped(t, "persistIntent") /\ db'[r].sentBondTxAt = ev[t].sentAt]_vars

C13_Witness ==
  \E r \in Roots :
    /\ db[r].sentBondTxAt /= Unset
    /\ db[r].isNotFound
    /\ ev[<<1, r>>].storeWrites = 1
    /\ ev[<<2, r>>].storeWrites = 1

(* C14: an evaluation whose bondTransferRoot dispatch failed has emitted a *)
(* notifier.error alert, has rejected, so that the poll entry point       *)
(* rejects to its caller, and has dispatched once only.                    *)
C14_SendFailureAlerted ==
  \A t \in Tasks :
    ev[t].txResult = "failed" =>
      /\ ev[t].errorAlerts >= 1
      /\ ev[t].threw
      /\ PollOutcome(t[1]) = "rejected"
      /\ ev[t].pc = "done"
      /\ ev[t].dispatches = 1

(* C15: whatever becomes of the notifier calls of an evaluation, the       *)
(* bonding outcome is the one the collaborators' answers decide: short    *)
(* credit ends it by a plain return, a needed withdrawal is invoked, a    *)
(* withdrawal that succeeds is followed by the sentBondTxAt update and    *)
(* one that fails rejects the evaluation, a transaction that is accepted  *)
(* makes the evaluation resolve and one that fails makes it reject.       *)
C15_NotifierFailuresIrrelevant ==
  \A t \in Tasks :
    /\ (ev[t].creditQueried /\ ev[t].creditSeen < ev[t].bondAmount) =>
         /\ ev[t].pc = "done"
         /\ ev[t].outcome = "notEnoughCredit"
         /\ ~ev[t].threw
         /\ ev[t].dispatches = 0
    /\ (ev[t].vaultRead
          /\ ev[t].creditInSection - ev[t].vaultInSection < ev[t].bondAmount) =>
         ev[t].withdrawCalls = 1
    /\ ev[t].withdrawResult = "ok" => ev[t].sentAt /= Unset /\ ev[t].outcome /= "withdrawFailed"
    /\ ev[t].withdrawResult = "failed" =>
         /\ ev[t].outcome = "withdrawFailed"
         /\ ev[t].threw
         /\ ev[t].sentAt = Unset
         /\ ev[t].dispatches = 0
    /\ ev[t].txResult = "ok" =>
         /\ ev[t].pc = "done"
         /\ ev[t].outcome = "sent"
         /\ ~ev[t].threw
         /\ ev[t].dispatches = 1
    /\ ev[t].txResult = "failed" => ev[t].outcome = "txFailed" /\ ev[t].threw
    /\ ev[t].outcome /= "notifierRaised"

C15_Witness ==
  \E t1, t2 \in Tasks :
    /\ ev[t1].alertsLost = 2 /\ ev[t1].withdrawResult = "ok" /\ ev[t1].outcome = "sent"
    /\ ev[t2].alertsLost = 0 /\ ev[t2].withdrawResult = "ok" /\ ev[t2].outcome = "sent"

IdsOrNone(S, r) == IF S[r].transferIdsKnown THEN MapLower(S[r].transferIds) ELSE <<>>

RECURSIVE WindowIds(_, _)
WindowIds(S, slots) ==
  IF slots = {} THEN <<>>
  ELSE LET r == CHOOSE x \in slots : \A y \in slots : x <= y
       IN  IdsOrNone(S, r) \o WindowIds(S, slots \ {r})

ExpectedValidation(S, nowMs, r, dest) ==
  LET window == {q \in DOMAIN S : /\ S[q].committedAt * MsPerSec >= nowMs - TwoWeeksMs
                                   /\ S[q].sourceChainId = ThisChainId}
      ids == IdsOrNone(S, r)
  IN  IF /\ S[r].destinationChainId = dest
         /\ \A i \in 1 .. Len(ids) : CountIn(ids[i], WindowIds(S, window)) = 1
      THEN "pass" ELSE "fail"

(* C16: for every store content, records with unknown transfer            *)
(* identifiers included, the validation returns true or false and never   *)
(* raises: false when the destination differs or an identifier of the     *)
(* target occurs zero times or more than once among the window's          *)
(* identifiers of this chain, true otherwise.                              *)
C16_ValidationIsTotal ==
  probe.root /= 0 =>
    /\ probe.result \in {"pass", "fail"}
    /\ probe.result = ExpectedValidation(db, now, probe.root, probe.destinationChainId)
    /\ probe.dispatches = (IF probe.result = "pass" THEN 1 ELSE 0)

StepRank(pc) ==
  CASE pc = "idle" -> 0
    [] pc = "minDelay" -> 1
    [] pc = "isBonded" -> 2
    [] pc = "markNotFound" -> 3
    [] pc = "bondAmount" -> 3
    [] pc = "mutexWait" -> 4
    [] pc = "withdraw" -> 5
    [] pc = "persistIntent" -> 6
    [] pc = "lookup" -> 7
    [] pc = "window" -> 8
    [] pc = "tx" -> 9
    [] pc = "done" -> 10

VaultEnsured(e) ==
  IF autoWithdrawEnabled(e.destinationChainId)
  THEN e.vaultRead /\ (e.withdrawCalls = 1 => e.withdrawResult = "ok")
  ELSE ~e.vaultRead /\ e.withdrawCalls = 0

(* C17: an evaluation only moves forward through timing gate, bonded      *)
(* check and hash verification, credit check, vault step, intent          *)
(* persistence, revalidation and transmission; the sentBondTxAt update is *)
(* issued only after a passed credit check and a completed vault step,    *)
(* the validation starts only after the update is written, and a dispatch *)
(* happens only after all of them, in the same evaluation.                *)
C17_StepsInOrder ==
  [][\A t \in Tasks :
       /\ ev'[t].pc /= ev[t].pc => StepRank(ev'[t].pc) > StepRank(ev[t].pc)
       /\ ev'[t].sentAt /= Unset =>
            /\ ev'[t].bondChecked /\ ev'[t].hashChecked
            /\ ev'[t].creditQueried /\ ev'[t].creditSeen >= ev'[t].bondAmount
            /\ VaultEnsured(ev'[t])
       /\ ev'[t].storeWrites > ev[t].storeWrites =>
            ev[t].pc \in {"markNotFound", "persistIntent"}
       /\ StepRank(ev'[t].pc) \in 7 .. 9 =>
            ev'[t].sentAt /= Unset /\ ev'[t].storeWrites = 1
       /\ ev'[t].dispatches > ev[t].dispatches =>
            /\ ev[t].storeWrites = 1
            /\ ev[t].sentAt /= Unset
            /\ ev'[t].validated = "pass"
            /\ VaultEnsured(ev[t])
            /\ ev[t].creditSeen >= ev[t].bondAmount]_vars

C17_Witness ==
  \E t \in Tasks :
    /\ ev[t].queued
    /\ ev[t].withdrawResult = "ok"
    /\ ev[t].dispatches = 1
    /\ ev[t].outcome = "sent"

InSection(e) == e.pc = "withdraw"

EntersSection(t) == ~ev[t].vaultRead /\ ev'[t].vaultRead

(* C18: at most one evaluation is inside the critical section, and it is  *)
(* the lock's holder; an evaluation makes the section's reads only when   *)
(* no other evaluation stays inside it, and one that finds the section    *)
(* occupied waits in the lock's queue without reading.                    *)
C18_VaultSectionExclusive ==
  [][/\ Cardinality({t \in Tasks : InSection(ev'[t])}) <= 1
     /\ \A t \in Tasks :
          /\ InSection(ev'[t]) <=> mutex'.holder = t
          /\ EntersSection(t) =>
               /\ autoWithdrawEnabled(ev[t].destinationChainId)
               /\ \A u \in Tasks \ {t} : ~(InSection(ev[u]) /\ InSection(ev'[u]))
          /\ (/\ Stepped(t, "bondAmount")
              /\ ev'[t].pc /= "done"
              /\ autoWithdrawEnabled(ev[t].destinationChainId)
              /\ \E u \in Tasks \ {t} : InSection(ev[u])) =>
               /\ ev'[t].pc = "mutexWait"
               /\ ~ev'[t].vaultRead
               /\ mutex'.queue = Append(mutex.queue, t)
               /\ mutex'.holder = mutex.holder
          /\ ev'[t].pc = "mutexWait" =>
               \E i \in 1 .. Len(mutex'.queue) : mutex'.queue[i] = t]_vars

C18_Witness ==
  \E t1, t2 \in Tasks :
    /\ InSection(ev[t1])
    /\ mutex.holder = t1
    /\ ev[t2].pc = "mutexWait"
    /\ mutex.queue = <<t2>>

Runnable(t) ==
  CASE ev[t].pc = "withdraw" -> mutex.holder = t
    [] ev[t].pc = "mutexWait" ->
         /\ mutex.holder /= NoTask
         /\ ev[mutex.holder].pc = "withdraw"
         /\ \E i \in 1 .. Len(mutex.queue) : mutex.queue[i] = t
    [] OTHER -> TRUE

Ends(t) == Active(ev[t]) /\ ev'[t].pc = "done"

(* C19: a poll cycle visits every root the query selected, whatever the   *)
(* coarse filter says of the others; the end of one evaluation, by return *)
(* or by a raised error, changes nothing of another evaluation except     *)
(* that it may pass the lock to a waiter; an evaluation that has not      *)
(* ended can always take its next step or waits for a lock holder that    *)
(* can; and one that ended without a dispatch did so at a gate of its own.*)
C19_RootsAreIsolated ==
  [][/\ \A c \in Cycles :
          (~cyc[c].started /\ cyc'[c].started) =>
            \A r \in getUnbondedTransferRoots : ev'[<<c, r>>].pc /= "idle"
     /\ \A t, u \in Tasks :
          (t /= u /\ Ends(u) /\ ev'[t] /= ev[t]) =>
            /\ ev[t].pc = "mutexWait"
            /\ ev[u].pc = "withdraw"
            /\ ev'[t].vaultRead
            /\ ev'[t].pc \in {"withdraw", "persistIntent"}
     /\ \A t \in Tasks :
          /\ Active(ev'[t]) => Runnable(t)'
          /\ (ev'[t].pc = "done" /\ ev'[t].dispatches = 0) =>
               CASE ev'[t].outcome = "coarseSkip" -> ~ev'[t].creditQueried
                 [] ev'[t].outcome = "tooEarly" -> ~ev'[t].bondChecked
                 [] ev'[t].outcome = "alreadyBonded" -> ev'[t].bondChecked
                 [] ev'[t].outcome = "hashMismatch" ->
                      getHexRoot(ev'[t].transferIds) /= ev'[t].transferRootHash
                 [] ev'[t].outcome = "notEnoughCredit" ->
                      ev'[t].creditSeen < ev'[t].bondAmount
                 [] ev'[t].outcome = "dry" -> conf.dryMode
                 [] ev'[t].outcome = "withdrawFailed" -> ev'[t].withdrawResult = "failed"
                 [] ev'[t].outcome = "reorg" -> ev'[t].validated = "fail"
                 [] ev'[t].outcome = "validationRaised" -> ev'[t].validated = "raised"
                 [] OTHER -> FALSE]_vars

C19_Witness ==
  \E c \in Cycles, r1, r2 \in Roots :
    /\ r1 /= r2
    /\ ev[<<c, r1>>].threw
    /\ PollOutcome(c) = "rejected"
    /\ ev[<<c, r2>>].outcome = "sent"
    /\ ev[<<c, r2>>].dispatches = 1

PassedCreditWith(e, credit) ==
  e.creditQueried /\ e.creditSeen = credit /\ e.creditSeen >= e.bondAmount

(* C20: the precise credit check of one root takes no account of the      *)
(* other roots: an evaluation whose credit covers its own bond passes     *)
(* although another evaluation of the same cycle, still in flight, has    *)
(* passed against the same credit value and the credit is less than the   *)
(* two bonds together, and whoever holds the vault lock.                  *)
C20_CreditChecksNotSerialized ==
  [][\A t \in Tasks :
       LET availableCredit == getAvailableCreditForBond(EthereumChainId)
           bondAmount == getBondForTransferAmount(ev[t].totalAmount)
       IN  (/\ Stepped(t, "bondAmount")
            /\ availableCredit >= bondAmount
            /\ \E u \in Tasks \ {t} :
                 /\ u[1] = t[1]
                 /\ Active(ev[u])
                 /\ PassedCreditWith(ev[u], availableCredit)
                 /\ availableCredit < bondAmount + ev[u].bondAmount) =>
             /\ ev'[t].creditSeen = availableCredit
             /\ ev'[t].outcome /= "notEnoughCredit"
             /\ ev'[t].errorAlerts = ev[t].errorAlerts
             /\ ~conf.dryMode => ev'[t].sentAt /= Unset \/ ev'[t].pc \in {"mutexWait", "withdraw"}]_vars

C20_Witness ==
  \E c \in Cycles, r1, r2 \in Roots :
    /\ r1 /= r2
    /\ ev[<<c, r1>>].dispatches = 1
    /\ ev[<<c, r2>>].dispatches = 1
    /\ PassedCreditWith(ev[<<c, r1>>], ev[<<c, r2>>].creditSeen)
    /\ PassedCreditWith(ev[<<c, r2>>], ev[<<c, r1>>].creditSeen)
    /\ ev[<<c, r1>>].creditSeen < ev[<<c, r1>>].bondAmount + ev[<<c, r2>>].bondAmount
    /\ ev[<<c, r1>>].vaultRead
    /\ ev[<<c, r2>>].vaultRead

====
